---- MODULE Spec2Model ----
(***************************************************************************)
(* A model of the data-normalisation core of circonus-unified-agent:       *)
(*   - internal.SetVersion / internal.Version  (internal/internal.go)      *)
(*   - Postgresql.accRow, the row classifier   (postgresql_extensible.go)  *)
(*   - Postgresql.Gather, the version gated query runner                   *)
(*                                                                         *)
(*   - internal.ParseTimestamp for the unix formats                        *)
(*                                                                         *)
(* Four specifications share the variables:                                *)
(*   Spec        one plugin instance running Gather cycles                 *)
(*   SpecRow     accRow applied to one row drawn from a bounded universe   *)
(*   SpecVersion sequences of SetVersion calls                             *)
(*   SpecTime    ParseTimestamp applied to one timestamp                   *)
(*                                                                         *)
(* Go values are represented as follows.                                   *)
(*   string        a TLA+ string                                           *)
(*   []string      a sequence of strings                                   *)
(*   interface{}   a record [k, s, n, b]: k is the dynamic type, s the     *)
(*                 string payload, n the integer payload (Bool: 0/1,       *)
(*                 Float64: the value in tenths), b the []byte payload as  *)
(*                 a sequence of byte codes                                *)
(*   map[K]V       a function whose DOMAIN is the set of keys              *)
(***************************************************************************)
EXTENDS Integers, Sequences, FiniteSets, TLC

VARIABLES
    version,         \* internal.version, the process-wide version string
    calls,           \* SpecVersion: the SetVersion calls made, <<arg, result>>
    Query,           \* Postgresql.Query, the configured descriptors
    AdditionalTags,  \* Postgresql.AdditionalTags
    pc,              \* position of Gather / of the accRow driver
    qi,              \* Gather: the loop index i (1-based)
    dbVersion,       \* Gather: local dbVersion
    detectOK,        \* Gather: whether QueryRow(..).Scan(&dbVersion) succeeded
    measName,        \* Gather: local measName
    tagValue,        \* Gather: local tagValue
    columns,         \* Gather: local columns
    cursor,          \* the result sets the cycle opened: per descriptor index
    deferred,        \* Gather: stack of deferred rows.Close() calls
    acc,             \* records handed to the accumulator (acc.AddFields), each
                     \* with its origin <<descriptor index, row index>>
    errLog,          \* p.Log.Error entries: descriptor index and cause
    dbgLog,          \* p.Log.Debugf "Failed to add .. as additional tag" entries
    executed,        \* descriptor indices whose query was sent to the source
    ret,             \* Gather's return value: "none" (running), "nil"
    rowIn,           \* SpecRow: the row under classification
    rowOrd,          \* SpecRow: the order in which the column map was ranged
    rowOut,          \* SpecRow: what accRow returned
    tsFormat,        \* SpecTime: ParseTimestamp's format argument
    tsIn,            \* SpecTime: ParseTimestamp's timestamp argument
    tsLoc,           \* SpecTime: ParseTimestamp's location argument
    tsOut            \* SpecTime: what ParseTimestamp returned

vars == <<version, calls, Query, AdditionalTags, pc, qi, dbVersion, detectOK,
          measName, tagValue, columns, cursor, deferred, acc, errLog, dbgLog,
          executed, ret, rowIn, rowOrd, rowOut, tsFormat, tsIn, tsLoc, tsOut>>

(***************************************************************************)
(* Bounds of the model.                                                    *)
(***************************************************************************)
MaxCalls == 4      \* SetVersion calls per behaviour
MaxCols == 2       \* columns of a row in SpecRow
MaxQueries == 2    \* descriptors in Postgresql.Query
MaxRows == 2       \* rows of one result set
MaxTsLen == 4      \* characters of a string timestamp in SpecTime

(***************************************************************************)
(* Generic helpers.                                                        *)
(***************************************************************************)
Range(s) == {s[x] : x \in 1..Len(s)}

SeqsUpTo(S, n) == UNION {[1..m -> S] : m \in 0..n}

\* m[k] = v on a Go map
MapPut(m, k, v) == [x \in (DOMAIN m) \cup {k} |-> IF x = k THEN v ELSE m[x]]

EmptyMap == [x \in {} |-> 0]

(***************************************************************************)
(* interface{} values as a database/sql driver hands them to Scan.         *)
(***************************************************************************)
Null == [k |-> "Null", s |-> "", n |-> 0, b |-> <<>>]
Str(x) == [k |-> "String", s |-> x, n |-> 0, b |-> <<>>]
Bytes(x) == [k |-> "Bytes", s |-> "", n |-> 0, b |-> x]
Int64(x) == [k |-> "Int64", s |-> "", n |-> x, b |-> <<>>]
Bool(x) == [k |-> "Bool", s |-> "", n |-> IF x THEN 1 ELSE 0, b |-> <<>>]
Float64(tenths) == [k |-> "Float64", s |-> "", n |-> tenths, b |-> <<>>]

\* the text of one byte (only the byte codes the model uses)
Chr(c) == CASE c = 97 -> "a" [] c = 98 -> "b" [] OTHER -> "?"

\* string(v) for v []byte
RECURSIVE BytesToString(_)
BytesToString(b) ==
    IF b = <<>> THEN "" ELSE Chr(Head(b)) \o BytesToString(Tail(b))

Digit(d) ==
    CASE d = 0 -> "0" [] d = 1 -> "1" [] d = 2 -> "2" [] d = 3 -> "3"
      [] d = 4 -> "4" [] d = 5 -> "5" [] d = 6 -> "6" [] d = 7 -> "7"
      [] d = 8 -> "8" [] OTHER -> "9"

\* fmt.Sprintf("%d", v)
RECURSIVE SprintfD(_)
SprintfD(v) ==
    IF v < 0 THEN "-" \o SprintfD(0 - v)
    ELSE IF v < 10 THEN Digit(v)
    ELSE SprintfD(v \div 10) \o Digit(v % 10)

(***************************************************************************)
(* Configuration literals.  A Tagvalue literal is a sequence of atoms: an  *)
(* atom is either the separator "," or a piece of text without commas.     *)
(***************************************************************************)
Comma == ","

\* strings.Split(s, ","), with cur the text since the last separator
RECURSIVE SplitFrom(_, _)
SplitFrom(s, cur) ==
    IF s = <<>> THEN <<cur>>
    ELSE IF Head(s) = Comma THEN <<cur>> \o SplitFrom(Tail(s), "")
    ELSE SplitFrom(Tail(s), cur \o Head(s))

StringsSplit(s) == SplitFrom(s, "")

\* Gather, lines 203-209: p.AdditionalTags rebuilt from the descriptor's Tagvalue
TagListOf(tv) == IF tv # <<>> THEN StringsSplit(tv) ELSE <<>>

(***************************************************************************)
(* Postgresql.accRow                                                       *)
(***************************************************************************)
ignoredColumns == {"stats_reset"}

\* p.SanitizedAddress() of the configured address (postgresql.Service); the
\* model's address is well formed, so the call does not fail
TagAddress == "host=localhost"

\* row.Scan(columnVars...): one destination per key of columnMap, taken in
\* column order; database/sql refuses a destination count that differs from
\* the number of columns of the result set
ScanFails(cols) == Cardinality(Range(cols)) # Len(cols)

\* columnMap after a successful Scan (column names are then distinct)
ColumnMapOf(cols, vals) ==
    [c \in Range(cols) |-> vals[CHOOSE x \in 1..Len(cols) : cols[x] = c]]

\* lines 252-262: the database name
DbnameOf(columnMap) ==
    IF "datname" \in DOMAIN columnMap /\ columnMap["datname"].k # "Null"
    THEN IF columnMap["datname"].k = "String"
         THEN columnMap["datname"].s
         ELSE "postgres"
    ELSE "postgres"

\* lines 269-272
BaseTags(columnMap) ==
    MapPut(MapPut(EmptyMap, "server", TagAddress), "db", DbnameOf(columnMap))

\* lines 283-286: col matches one of p.AdditionalTags
IsAdditionalTag(col, tagList) == \E t \in 1..Len(tagList) : tagList[t] = col

\* TagColumn without the []byte case: a byte sequence falls to the default
TagColumn_BytesDropped(st, col, val) ==
    CASE val.k = "String" ->
            [st EXCEPT !.tags = MapPut(st.tags, col, val.s)]
      [] val.k = "Int64" ->
            [st EXCEPT !.tags = MapPut(st.tags, col, SprintfD(val.n))]
      [] OTHER ->
            [st EXCEPT !.dbg = Append(st.dbg, col)]

\* lines 287-296: the type switch on a tag column; st is [tags, fields, dbg]
TagColumn(st, col, val) ==
    CASE val.k = "String" ->
            [st EXCEPT !.tags = MapPut(st.tags, col, val.s)]
      [] val.k = "Bytes" ->
            [st EXCEPT !.tags = MapPut(st.tags, col, BytesToString(val.b))]
      [] val.k = "Int64" ->
            [st EXCEPT !.tags = MapPut(st.tags, col, SprintfD(val.n))]
      [] OTHER ->
            [st EXCEPT !.dbg = Append(st.dbg, col)]

\* FieldColumn that starts the fields map afresh for each column
FieldColumn_Reset(st, col, val) ==
    [st EXCEPT !.fields = MapPut(EmptyMap, col, val)]

\* lines 300-304
FieldColumn(st, col, val) ==
    IF val.k = "Bytes"
    THEN [st EXCEPT !.fields = MapPut(st.fields, col, Str(BytesToString(val.b)))]
    ELSE [st EXCEPT !.fields = MapPut(st.fields, col, val)]

\* ColumnStep without "continue COLUMN": a tag column is also made a field
ColumnStep_NoContinue(st, col, val, tagList) ==
    IF col \in ignoredColumns \/ val.k = "Null" THEN st
    ELSE IF IsAdditionalTag(col, tagList)
         THEN FieldColumn(TagColumn(st, col, val), col, val)
    ELSE FieldColumn(st, col, val)

\* lines 276-305: one iteration of the COLUMN loop
ColumnStep(st, col, val, tagList) ==
    IF col \in ignoredColumns \/ val.k = "Null" THEN st
    ELSE IF IsAdditionalTag(col, tagList) THEN TagColumn(st, col, val)
    ELSE FieldColumn(st, col, val)

\* the COLUMN loop, ranging over the map in the order ord
RECURSIVE ColumnLoop(_, _, _, _)
ColumnLoop(st, ord, columnMap, tagList) ==
    IF ord = <<>> THEN st
    ELSE ColumnLoop(ColumnStep(st, Head(ord), columnMap[Head(ord)], tagList),
                    Tail(ord), columnMap, tagList)

\* the orders in which a map with key set S may be ranged
Orders(S) == {o \in [1..Cardinality(S) -> S] : Range(o) = S}

NoRecord == [name |-> "", tags |-> EmptyMap, fields |-> EmptyMap]

\* accRow(measName, row, acc, columns): err, the record given to
\* acc.AddFields, and the debug diagnostics
accRow(name, vals, cols, ord, tagList) ==
    IF ScanFails(cols)
    THEN [err |-> TRUE, rec |-> NoRecord, dbg |-> <<>>]
    ELSE LET columnMap == ColumnMapOf(cols, vals)
             st0 == [tags |-> BaseTags(columnMap), fields |-> EmptyMap,
                     dbg |-> <<>>]
             st == ColumnLoop(st0, ord, columnMap, tagList)
         IN [err |-> FALSE,
             rec |-> [name |-> name, tags |-> st.tags, fields |-> st.fields],
             dbg |-> st.dbg]

(***************************************************************************)
(* Values of the variables a specification does not use.                   *)
(***************************************************************************)
NoRow == [cols |-> <<>>, vals |-> <<>>]
NoOut == [err |-> FALSE, rec |-> NoRecord, dbg |-> <<>>]

VersionIdle == version = "" /\ calls = <<>>

GatherIdle ==
    /\ Query = <<>> /\ qi = 0 /\ dbVersion = 0 /\ detectOK = FALSE
    /\ columns = <<>> /\ cursor = EmptyMap /\ deferred = <<>>
    /\ errLog = <<>> /\ executed = <<>> /\ ret = "none"

RowIdle == rowIn = NoRow /\ rowOrd = <<>> /\ rowOut = NoOut

NoTime == [err |-> FALSE, sec |-> 0, nsec |-> 0, loc |-> "", by |-> ""]

TimeIdle ==
    /\ tsFormat = "" /\ tsLoc = "" /\ tsOut = NoTime
    /\ tsIn = [k |-> "Int64", c |-> <<>>, n |-> 0]

timeVars == <<tsFormat, tsIn, tsLoc, tsOut>>

(***************************************************************************)
(* SpecRow: accRow applied to one row.                                     *)
(***************************************************************************)
ColumnNames == {"datname", "db", "stats_reset", "host"}

SampleValues ==
    {Null, Str("a"), Bytes(<<98>>), Int64(0 - 7), Bool(TRUE), Float64(15)}

TagLiterals ==
    {<<>>, <<"host">>, <<"datname">>, <<"db", Comma>>, <<"host", Comma, "db">>}

RowInputs ==
    UNION {{[cols |-> c, vals |-> v] : v \in [1..Len(c) -> SampleValues]} :
              c \in SeqsUpTo(ColumnNames, MaxCols)}

InitRow ==
    /\ VersionIdle /\ GatherIdle /\ TimeIdle
    /\ rowIn \in RowInputs
    /\ tagValue \in TagLiterals
    /\ AdditionalTags = TagListOf(tagValue)
    /\ measName = "postgresql"
    /\ pc = "row"
    /\ acc = <<>> /\ dbgLog = <<>>
    /\ rowOrd = <<>> /\ rowOut = NoOut

\* one call of accRow on rowIn, ranging the column map in some order
ClassifyRow ==
    /\ pc = "row"
    /\ \E ord \in Orders(Range(rowIn.cols)) :
          LET out == accRow(measName, rowIn.vals, rowIn.cols, ord, AdditionalTags)
          IN /\ rowOut' = out
             /\ rowOrd' = ord
             /\ acc' = IF out.err THEN acc
                       ELSE Append(acc, [src |-> <<0, 1>>, rec |-> out.rec])
             /\ dbgLog' = dbgLog \o out.dbg
    /\ pc' = "rowdone"
    /\ UNCHANGED <<version, calls, Query, AdditionalTags, qi, dbVersion, detectOK,
                   measName, tagValue, columns, cursor, deferred, errLog,
                   executed, ret, rowIn>>
    /\ UNCHANGED timeVars

NextRow == ClassifyRow

SpecRow == InitRow /\ [][NextRow]_vars

\* SpecRow: accRow has returned a record for rowIn
RowEmitted == pc = "rowdone" /\ ~rowOut.err

\* SpecRow: the column map accRow scanned rowIn into
RowMap == ColumnMapOf(rowIn.cols, rowIn.vals)

\* the columns of rowIn that pass the Null / ignored filter
RowLive == {c \in Range(rowIn.cols) : c \notin ignoredColumns /\ RowMap[c].k # "Null"}

RowTagged == {c \in RowLive : c \in Range(AdditionalTags)}

\* what line 300-304 stores in fields for a value
FieldValueOf(val) == IF val.k = "Bytes" THEN Str(BytesToString(val.b)) ELSE val

\* rowIn without column c (column names distinct)
ColsWithout(c) == SelectSeq(rowIn.cols, LAMBDA x : x # c)

ValsWithout(c) ==
    LET at == CHOOSE x \in 1..Len(rowIn.cols) : rowIn.cols[x] = c
    IN [j \in 1..(Len(rowIn.vals) - 1) |->
           IF j < at THEN rowIn.vals[j] ELSE rowIn.vals[j + 1]]

OrdWithout(c) == SelectSeq(rowOrd, LAMBDA x : x # c)

(***************************************************************************)
(* C6 (as stated): the record accRow emits partitions the columns: a Null  *)
(* or ignored column is a key of neither tags nor fields, every other      *)
(* column not in tagNames is a field (bytes as string, other kinds         *)
(* unchanged), and no column name is a key of both tags and fields.        *)
(* Refuted by a column named like a reserved tag key ("db").               *)
(***************************************************************************)
C6_Original ==
    RowEmitted =>
        \A c \in Range(rowIn.cols) :
            /\ c \notin RowLive =>
                  /\ c \notin DOMAIN rowOut.rec.tags
                  /\ c \notin DOMAIN rowOut.rec.fields
            /\ c \in RowLive \ RowTagged =>
                  /\ c \in DOMAIN rowOut.rec.fields
                  /\ rowOut.rec.fields[c] = FieldValueOf(RowMap[c])
            /\ ~(c \in DOMAIN rowOut.rec.tags /\ c \in DOMAIN rowOut.rec.fields)

(***************************************************************************)
(* C7 (as stated): a non-null, non-ignored column named in tagNames        *)
(* becomes a tag: String as is, ByteSequence decoded, Int64 and Bool in    *)
(* decimal form; the column is then a key of tags and not of fields.       *)
(* Refuted by a Bool column.                                               *)
(***************************************************************************)
C7_Original ==
    RowEmitted =>
        \A c \in RowTagged :
            RowMap[c].k \in {"String", "Bytes", "Int64", "Bool"} =>
                /\ c \in DOMAIN rowOut.rec.tags
                /\ c \notin DOMAIN rowOut.rec.fields
                /\ rowOut.rec.tags[c] =
                      CASE RowMap[c].k = "String" -> RowMap[c].s
                        [] RowMap[c].k = "Bytes" -> BytesToString(RowMap[c].b)
                        [] OTHER -> SprintfD(RowMap[c].n)

(***************************************************************************)
(* C7 (amended): String as is, ByteSequence decoded and Int64 in decimal   *)
(* form become the tag value, the column being a key of tags and not of    *)
(* fields; a Bool column is not converted: it is not a field, sets no tag  *)
(* (the tags are those of the row without it) and leaves a diagnostic.     *)
(***************************************************************************)
C7_TagValues ==
    RowEmitted =>
        \A c \in RowTagged :
            /\ RowMap[c].k \in {"String", "Bytes", "Int64"} =>
                  /\ c \in DOMAIN rowOut.rec.tags
                  /\ c \notin DOMAIN rowOut.rec.fields
                  /\ rowOut.rec.tags[c] =
                        CASE RowMap[c].k = "String" -> RowMap[c].s
                          [] RowMap[c].k = "Bytes" -> BytesToString(RowMap[c].b)
                          [] OTHER -> SprintfD(RowMap[c].n)
            /\ RowMap[c].k = "Bool" =>
                  /\ c \notin DOMAIN rowOut.rec.fields
                  /\ c \in Range(rowOut.dbg)
                  /\ rowOut.rec.tags =
                        accRow(measName, ValsWithout(c), ColsWithout(c),
                               OrdWithout(c), AdditionalTags).rec.tags

\* C7 witness: a record with a Bool tag column and a converted tag column
C7_Witness ==
    /\ RowEmitted
    /\ \E c, d \in RowTagged :
          /\ RowMap[c].k = "Bool"
          /\ RowMap[d].k \in {"Bytes", "Int64"}

C9_Original ==
    RowEmitted =>
        /\ "db" \in DOMAIN rowOut.rec.tags
        /\ rowOut.rec.tags["db"] =
              IF /\ "datname" \in Range(rowIn.cols)
                 /\ RowMap["datname"].k = "String"
              THEN RowMap["datname"].s
              ELSE "postgres"

(***************************************************************************)
(* SpecVersion: internal.SetVersion / internal.Version                     *)
(***************************************************************************)
VersionStrings == {"", "1.0", "2.0"}

\* SetVersion(v) on the stored value cur: the new stored value and the error
SetVersion(cur, v) ==
    IF cur # ""
    THEN [version |-> cur, err |-> "ErrVersionAlreadySet"]
    ELSE [version |-> v, err |-> "nil"]

\* Version()
Version == version

InitVersion ==
    /\ version = "" /\ calls = <<>>
    /\ GatherIdle /\ RowIdle /\ TimeIdle
    /\ AdditionalTags = <<>> /\ tagValue = <<>> /\ measName = ""
    /\ pc = "idle" /\ acc = <<>> /\ dbgLog = <<>>

SetVersionCall ==
    /\ Len(calls) < MaxCalls
    /\ \E v \in VersionStrings :
          LET r == SetVersion(version, v)
          IN /\ version' = r.version
             /\ calls' = Append(calls, [arg |-> v, err |-> r.err])
    /\ UNCHANGED <<Query, AdditionalTags, pc, qi, dbVersion, detectOK, measName,
                   tagValue, columns, cursor, deferred, acc, errLog, dbgLog,
                   executed, ret, rowIn, rowOrd, rowOut>>
    /\ UNCHANGED timeVars

NextVersion == SetVersionCall

SpecVersion == InitVersion /\ [][NextVersion]_vars

(***************************************************************************)
(* C5 (as stated): in any sequence of SetVersion calls with any string     *)
(* arguments the first call succeeds, every later call fails with          *)
(* ErrVersionAlreadySet, and Version() is the first value set.             *)
(* Refuted by a first call with the empty string.                          *)
(***************************************************************************)
C5_Original ==
    /\ \A j \in 1..Len(calls) :
          calls[j].err = IF j = 1 THEN "nil" ELSE "ErrVersionAlreadySet"
    /\ calls # <<>> => Version = calls[1].arg

(***************************************************************************)
(* Spec: Postgresql.Gather.                                                *)
(*                                                                         *)
(* A descriptor is [Version, Tagvalue, Measurement].  The text of the      *)
(* query (Sqlquery, Script, Withdbname, Databases) only reaches the source,*)
(* whose answer is any of Responses, so the model leaves it out.           *)
(* The source answers a query with an error or with a result set; a result *)
(* set holds its column names and its rows, and is open until rows.Next    *)
(* reaches its end or rows.Close is called.  An open result set holds one  *)
(* of the pool's connections.                                              *)
(***************************************************************************)
MaxOpen == 1

Descriptors ==
    {[Version |-> 0, Tagvalue |-> <<>>, Measurement |-> ""],
     [Version |-> 901, Tagvalue |-> <<"host">>, Measurement |-> "m"],
     [Version |-> 1000, Tagvalue |-> <<"host">>, Measurement |-> ""],
     [Version |-> 0, Tagvalue |-> <<"datname", Comma, "host">>, Measurement |-> "m"]}

QueryLists == SeqsUpTo(Descriptors, MaxQueries) \ {<<>>}

\* what server_version_num / 100 can be
ServerVersions == {901}

\* the column lists the source answers with; the second repeats a name
ColumnLists == {<<"datname", "host">>, <<"host", "host">>}

\* row j of a result set with columns cols
SourceRow(cols, j) ==
    [x \in 1..Len(cols) |->
        IF cols[x] = "datname"
        THEN IF j % 2 = 1 THEN Str("a") ELSE Null
        ELSE IF j % 2 = 1 THEN Int64(j) ELSE Float64(10 * j + 5)]

ResultSets ==
    {[cols |-> c, rows |-> [j \in 1..n |-> SourceRow(c, j)]] :
        c \in ColumnLists, n \in 0..MaxRows}

\* lines 160-162: dbVersion after QueryRow(query).Scan(&dbVersion)
VersionAfterScan_Negative(ok, v) == IF ok THEN v ELSE 0 - 1

VersionAfterScan(ok, v) == IF ok THEN v ELSE 0

\* lines 170-174
MeasNameOf_Default(m) == "postgresql"

MeasNameOf(m) == IF m # "" THEN m ELSE "postgresql"

\* line 188: the version gate
VersionGate_Strict(minVersion, v) == minVersion < v

VersionGate(minVersion, v) == minVersion <= v

\* lines 190-193: the loop index after a failed query ("continue")
AfterQueryError_Abort(i) == Len(Query) + 1

AfterQueryError(i) == i + 1

\* the result sets that are open, each holding a connection
OpenSets == {d \in DOMAIN cursor : cursor[d].open}

\* p.DB.Query obtains a connection from a pool of at most MaxOpen
\* (MaxOpen <= 0: no limit); with none free the call waits
ConnAvailable == MaxOpen <= 0 \/ Cardinality(OpenSets) < MaxOpen

\* rows.Close() on every deferred result set, at return
CloseDeferred(cur, stack) ==
    [d \in DOMAIN cur |->
        IF d \in Range(stack) THEN [cur[d] EXCEPT !.open = FALSE] ELSE cur[d]]

\* the tag list appended to what the previous descriptor left
RebuildTags_NoReset(old, tv) ==
    IF tv # <<>> THEN old \o StringsSplit(tv) ELSE old

\* lines 203-209: p.AdditionalTags = nil, then one append per piece of the
\* descriptor's Tagvalue
RebuildTags(old, tv) ==
    LET reset == <<>>
    IN IF tv # <<>> THEN reset \o StringsSplit(tv) ELSE reset

rowVars == <<rowIn, rowOrd, rowOut>>
versionVars == <<version, calls>>

Init ==
    /\ VersionIdle /\ RowIdle /\ TimeIdle
    /\ Query \in QueryLists
    /\ AdditionalTags = <<>>
    /\ pc = "idle" /\ qi = 0 /\ dbVersion = 0 /\ detectOK = FALSE
    /\ measName = "" /\ tagValue = <<>> /\ columns = <<>>
    /\ cursor = EmptyMap /\ deferred = <<>>
    /\ acc = <<>> /\ errLog = <<>> /\ dbgLog = <<>> /\ executed = <<>>
    /\ ret = "none"

\* Gather is called with a fresh accumulator; lines 158-162
GatherStart ==
    /\ pc = "idle"
    /\ \E ok \in BOOLEAN, v \in ServerVersions :
          /\ detectOK' = ok
          /\ dbVersion' = VersionAfterScan(ok, v)
    /\ qi' = 1
    /\ pc' = "loop"
    /\ measName' = "" /\ tagValue' = <<>> /\ columns' = <<>>
    /\ cursor' = EmptyMap /\ deferred' = <<>>
    /\ acc' = <<>> /\ errLog' = <<>> /\ dbgLog' = <<>> /\ executed' = <<>>
    /\ ret' = "none"
    /\ UNCHANGED <<Query, AdditionalTags>>
    /\ UNCHANGED versionVars /\ UNCHANGED rowVars /\ UNCHANGED timeVars

\* lines 166-188: the head of one iteration, up to the version gate
LoopHead ==
    /\ pc = "loop" /\ qi <= Len(Query)
    /\ tagValue' = Query[qi].Tagvalue
    /\ measName' = MeasNameOf(Query[qi].Measurement)
    /\ IF VersionGate(Query[qi].Version, dbVersion)
       THEN pc' = "query" /\ qi' = qi
       ELSE pc' = "loop" /\ qi' = qi + 1
    /\ UNCHANGED <<Query, AdditionalTags, dbVersion, detectOK, columns, cursor,
                   deferred, acc, errLog, dbgLog, executed, ret>>
    /\ UNCHANGED versionVars /\ UNCHANGED rowVars /\ UNCHANGED timeVars

\* lines 189-193: p.DB.Query fails
QueryFails ==
    /\ pc = "query" /\ ConnAvailable
    /\ executed' = Append(executed, [i |-> qi, ok |-> FALSE])
    /\ errLog' = Append(errLog, [i |-> qi, at |-> "query"])
    /\ qi' = AfterQueryError(qi)
    /\ pc' = "loop"
    /\ UNCHANGED <<Query, AdditionalTags, dbVersion, detectOK, measName, tagValue,
                   columns, cursor, deferred, acc, dbgLog, ret>>
    /\ UNCHANGED versionVars /\ UNCHANGED rowVars /\ UNCHANGED timeVars

\* lines 189-195: p.DB.Query answers with a result set; its Close is deferred
QueryOpens ==
    /\ pc = "query" /\ ConnAvailable
    /\ \E rs \in ResultSets :
          cursor' = MapPut(cursor, qi,
                           [open |-> TRUE, cols |-> rs.cols, rows |-> rs.rows,
                            next |-> 1])
    /\ executed' = Append(executed, [i |-> qi, ok |-> TRUE])
    /\ deferred' = <<qi>> \o deferred
    /\ pc' = "columns"
    /\ UNCHANGED <<Query, AdditionalTags, qi, dbVersion, detectOK, measName,
                   tagValue, columns, acc, errLog, dbgLog, ret>>
    /\ UNCHANGED versionVars /\ UNCHANGED rowVars /\ UNCHANGED timeVars

\* lines 198-201: rows.Columns() fails, which database/sql reports only of a
\* result set that is closed already
ColumnsFail ==
    /\ pc = "columns"
    /\ cursor' = [cursor EXCEPT ![qi].open = FALSE]
    /\ columns' = <<>>
    /\ errLog' = Append(errLog, [i |-> qi, at |-> "columns"])
    /\ qi' = qi + 1
    /\ pc' = "loop"
    /\ UNCHANGED <<Query, AdditionalTags, dbVersion, detectOK, measName, tagValue,
                   deferred, acc, dbgLog, executed, ret>>
    /\ UNCHANGED versionVars /\ UNCHANGED rowVars /\ UNCHANGED timeVars

\* lines 198-209: the columns are read and p.AdditionalTags is rebuilt
ColumnsRead ==
    /\ pc = "columns"
    /\ columns' = cursor[qi].cols
    /\ AdditionalTags' = RebuildTags(AdditionalTags, tagValue)
    /\ pc' = "rows"
    /\ UNCHANGED <<Query, qi, dbVersion, detectOK, measName, tagValue, cursor,
                   deferred, acc, errLog, dbgLog, executed, ret>>
    /\ UNCHANGED versionVars /\ UNCHANGED rowVars /\ UNCHANGED timeVars

\* line 211: rows.Next() finds no further row and closes the result set
RowsEnd ==
    /\ pc = "rows"
    /\ cursor[qi].next > Len(cursor[qi].rows)
    /\ cursor' = [cursor EXCEPT ![qi].open = FALSE]
    /\ qi' = qi + 1
    /\ pc' = "loop"
    /\ UNCHANGED <<Query, AdditionalTags, dbVersion, detectOK, measName, tagValue,
                   columns, deferred, acc, errLog, dbgLog, executed, ret>>
    /\ UNCHANGED versionVars /\ UNCHANGED rowVars /\ UNCHANGED timeVars

\* lines 211-216: rows.Next() yields a row and accRow classifies it; an
\* error of accRow is logged and ends the row loop ("break")
RowsNext ==
    /\ pc = "rows"
    /\ cursor[qi].next <= Len(cursor[qi].rows)
    /\ \E ord \in Orders(Range(columns)) :
          LET j == cursor[qi].next
              out == accRow(measName, cursor[qi].rows[j], columns, ord,
                            AdditionalTags)
          IN IF out.err
             THEN /\ errLog' = Append(errLog, [i |-> qi, at |-> "row"])
                  /\ qi' = qi + 1
                  /\ pc' = "loop"
                  /\ UNCHANGED <<cursor, acc, dbgLog>>
             ELSE /\ acc' = Append(acc, [src |-> <<qi, j>>, rec |-> out.rec])
                  /\ dbgLog' = dbgLog \o [x \in 1..Len(out.dbg) |->
                                            [i |-> qi, col |-> out.dbg[x]]]
                  /\ cursor' = [cursor EXCEPT ![qi].next = j + 1]
                  /\ UNCHANGED <<errLog, qi, pc>>
    /\ UNCHANGED <<Query, AdditionalTags, dbVersion, detectOK, measName, tagValue,
                   columns, deferred, executed, ret>>
    /\ UNCHANGED versionVars /\ UNCHANGED rowVars /\ UNCHANGED timeVars

\* line 220: the loop is over; the deferred Close calls run and Gather
\* returns nil
GatherReturn ==
    /\ pc = "loop" /\ qi > Len(Query)
    /\ cursor' = CloseDeferred(cursor, deferred)
    /\ deferred' = <<>>
    /\ ret' = "nil"
    /\ pc' = "idle"
    /\ UNCHANGED <<Query, AdditionalTags, qi, dbVersion, detectOK, measName,
                   tagValue, columns, acc, errLog, dbgLog, executed>>
    /\ UNCHANGED versionVars /\ UNCHANGED rowVars /\ UNCHANGED timeVars

Next ==
    \/ GatherStart
    \/ LoopHead
    \/ QueryFails
    \/ QueryOpens
    \/ ColumnsFail
    \/ ColumnsRead
    \/ RowsEnd
    \/ RowsNext
    \/ GatherReturn

Spec == Init /\ [][Next]_vars

\* a step of a running Gather call
GatherStep ==
    \/ LoopHead
    \/ QueryFails
    \/ QueryOpens
    \/ ColumnsFail
    \/ ColumnsRead
    \/ RowsEnd
    \/ RowsNext
    \/ GatherReturn

(***************************************************************************)
(* What the claims about Gather read off a state.                          *)
(***************************************************************************)
\* a cycle has started (it is running, or it has returned)
CycleRan == pc # "idle" \/ ret = "nil"

\* the loop is past descriptor d
Passed(d) == (pc # "idle" /\ qi > d) \/ ret = "nil"

ExecutedIdx == {executed[x].i : x \in 1..Len(executed)}

\* the records descriptor d handed to the accumulator, in order
RecordsOf(d) == SelectSeq(acc, LAMBDA e : e.src[1] = d)

ColumnsFailed(d) == [i |-> d, at |-> "columns"] \in Range(errLog)

AnyOrder(cols) == CHOOSE o \in Orders(Range(cols)) : TRUE

\* the record row j of descriptor d's result set classifies to
ExpectedRec(d, j) ==
    accRow(IF Query[d].Measurement = "" THEN "postgresql"
           ELSE Query[d].Measurement,
           cursor[d].rows[j], cursor[d].cols, AnyOrder(cursor[d].cols),
           IF Query[d].Tagvalue = <<>> THEN <<>>
           ELSE StringsSplit(Query[d].Tagvalue)).rec

\* the first k rows of descriptor d, as records
ExpectedOf(d, k) == [j \in 1..k |-> [src |-> <<d, j>>, rec |-> ExpectedRec(d, j)]]

\* the concatenation over descriptors 1..n of the first cnt[d] rows of each
RECURSIVE ExpectedAcc(_, _)
ExpectedAcc(n, cnt) ==
    IF n = 0 THEN <<>>
    ELSE ExpectedAcc(n - 1, cnt) \o
         (IF n \in DOMAIN cursor THEN ExpectedOf(n, cnt[n]) ELSE <<>>)

\* the number of rows of d's result set before the first one accRow fails on
RowsBeforeFailure(d) ==
    IF ScanFails(cursor[d].cols) THEN 0 ELSE Len(cursor[d].rows)

(***************************************************************************)
(* C1 (as stated): when version detection fails the cycle is fatal: no     *)
(* descriptor is executed, no record reaches the accumulator and Gather    *)
(* returns an error.  Refuted: Gather carries on with dbVersion = 0 and    *)
(* returns nil.                                                            *)
(***************************************************************************)
C1_Original ==
    (CycleRan /\ ~detectOK) =>
        /\ executed = <<>>
        /\ acc = <<>>
        /\ ret # "nil"

(***************************************************************************)
(* C1 (amended): when version detection fails Gather takes the version to  *)
(* be 0 and carries on: exactly the descriptors with minVersion <= 0 are   *)
(* executed, the others are skipped, and Gather returns nil.               *)
(***************************************************************************)
C1_DetectFailure ==
    (CycleRan /\ ~detectOK) =>
        /\ dbVersion = 0
        /\ ret \in {"none", "nil"}
        /\ \A d \in 1..Len(Query) :
              /\ d \in ExecutedIdx => Query[d].Version <= 0
              /\ (Passed(d) /\ Query[d].Version <= 0) => d \in ExecutedIdx

\* C1 witness: a cycle whose detection failed emitted records, skipped a
\* descriptor and returned nil
C1_Witness ==
    /\ ~detectOK /\ ret = "nil" /\ acc # <<>>
    /\ \E d \in 1..Len(Query) : Query[d].Version > 0

(***************************************************************************)
(* C2: a query execution error on descriptor i is logged, gives no record  *)
(* for i, and the loop moves on: when Gather returns, every later          *)
(* descriptor that passes the version gate was executed and its records    *)
(* are those of its own result set.                                        *)
(***************************************************************************)
C2_QueryErrorIsolated ==
    \A x \in 1..Len(executed) :
        ~executed[x].ok =>
            LET i == executed[x].i
            IN /\ [i |-> i, at |-> "query"] \in Range(errLog)
               /\ RecordsOf(i) = <<>>
               /\ i \notin DOMAIN cursor
               /\ pc # "idle" => qi > i
               /\ ret = "nil" =>
                     \A j \in (i + 1)..Len(Query) :
                         Query[j].Version <= dbVersion =>
                             /\ j \in ExecutedIdx
                             /\ j \in DOMAIN cursor =>
                                   RecordsOf(j) =
                                      ExpectedOf(j, IF ColumnsFailed(j) THEN 0
                                                    ELSE RowsBeforeFailure(j))

\* C2 witness: a descriptor's query failed and a later one emitted records
C2_Witness ==
    /\ ret = "nil"
    /\ \E x \in 1..Len(executed) :
          /\ ~executed[x].ok
          /\ \E j \in (executed[x].i + 1)..Len(Query) : RecordsOf(j) # <<>>

(***************************************************************************)
(* C3: the version gate.  A descriptor is executed iff its minVersion <=   *)
(* dbVersion; a descriptor with dbVersion < minVersion causes no query, no *)
(* result set, no record, no error entry and no diagnostic.                *)
(***************************************************************************)
C3_VersionGate ==
    CycleRan =>
        \A d \in 1..Len(Query) :
            /\ d \in ExecutedIdx => Query[d].Version <= dbVersion
            /\ (Passed(d) /\ Query[d].Version <= dbVersion) => d \in ExecutedIdx
            /\ Query[d].Version > dbVersion =>
                  /\ d \notin ExecutedIdx
                  /\ d \notin DOMAIN cursor
                  /\ RecordsOf(d) = <<>>
                  /\ \A x \in 1..Len(errLog) : errLog[x].i # d
                  /\ \A x \in 1..Len(dbgLog) : dbgLog[x].i # d

\* C3 witness: with the version detected, one descriptor was skipped and
\* another one emitted records
C3_Witness ==
    /\ ret = "nil" /\ detectOK
    /\ \E d, e \in 1..Len(Query) :
          /\ Query[d].Version > dbVersion
          /\ Query[e].Version = dbVersion
          /\ RecordsOf(e) # <<>>

(***************************************************************************)
(* C4 (as stated): a result set is closed when the runner leaves its       *)
(* descriptor: no result set is open while a later descriptor is processed.*)
(* Refuted: after a row error ends the row loop the result set stays open  *)
(* until Gather returns (the Close is deferred to the function's end).     *)
(***************************************************************************)
C4_Original ==
    \A d \in OpenSets : (pc # "idle" /\ qi <= Len(Query)) => qi = d

(***************************************************************************)
(* C10 (as stated): when Gather returns, the accumulator holds, in         *)
(* descriptor order, one record per returned row in row order, each named  *)
(* by the descriptor's measurement name or "postgresql".                   *)
(* Refuted: a row accRow fails on gives no record and ends the row loop.   *)
(***************************************************************************)
C10_Original ==
    ret = "nil" =>
        acc = ExpectedAcc(Len(Query),
                          [d \in DOMAIN cursor |->
                              IF ColumnsFailed(d) THEN 0 ELSE Len(cursor[d].rows)])

(***************************************************************************)
(* C10 (amended): at every point of a cycle the accumulator holds, in      *)
(* descriptor order, one record per row handled so far, in row order, each *)
(* named by the descriptor's measurement name or "postgresql"; when Gather *)
(* returns, every executed descriptor has given one record per returned    *)
(* row up to, and excluding, the first row accRow fails on.                *)
(***************************************************************************)
C10_EmissionOrder ==
    /\ acc = ExpectedAcc(Len(Query), [d \in DOMAIN cursor |-> cursor[d].next - 1])
    /\ ret = "nil" =>
          \A d \in DOMAIN cursor :
              cursor[d].next - 1 =
                 IF ColumnsFailed(d) THEN 0 ELSE RowsBeforeFailure(d)

\* C10 witness: a returned cycle with records of two descriptors, one of
\* them with two rows, under both kinds of name
C10_Witness ==
    /\ ret = "nil" /\ Len(acc) >= 3
    /\ acc[1].src[1] # acc[Len(acc)].src[1]
    /\ acc[1].rec.name # acc[Len(acc)].rec.name

(***************************************************************************)
(* C11: row classification does not depend on the order in which the       *)
(* column map is ranged: for the row, tag list and order of any call, each *)
(* other order of the same columns gives the same tags and the same fields.*)
(***************************************************************************)
C11_OrderIndependent ==
    RowEmitted =>
        \A o \in Orders(Range(rowIn.cols)) :
            LET other == accRow(measName, rowIn.vals, rowIn.cols, o,
                                AdditionalTags)
            IN /\ ~other.err
               /\ other.rec.tags = rowOut.rec.tags
               /\ other.rec.fields = rowOut.rec.fields

\* C11 witness: a row ranged in an order that is not the column order, with
\* a column made a tag and a column made a field
C11_Witness ==
    /\ RowEmitted
    /\ rowOrd # rowIn.cols
    /\ \E c \in RowTagged : RowMap[c].k \in {"String", "Bytes", "Int64"}
    /\ DOMAIN rowOut.rec.fields # {}

(***************************************************************************)
(* SpecTime: internal.ParseTimestamp.                                      *)
(*                                                                         *)
(* A timestamp argument is [k, c, n]: k its dynamic type, c the characters *)
(* of a string (a sequence of one-character strings), n an int64.  A       *)
(* time.Time is [sec, nsec, loc]: seconds since the epoch, nanoseconds in  *)
(* 0..999999999 and the location.  The values of the model stay far inside *)
(* int64, so strconv.ParseInt's range error and the wrap of integer*1e6    *)
(* do not occur.  float64 timestamps and layout parsing (parseTime) are    *)
(* outside the model: a layout format is only routed to parseTime.         *)
(***************************************************************************)
TsChars == {"0", "5", ".", ",", "-"}

TsStrings == SeqsUpTo(TsChars, MaxTsLen)

TsString(c) == [k |-> "String", c |-> c, n |-> 0]
TsInt64(n) == [k |-> "Int64", c |-> <<>>, n |-> n]
TsBool == [k |-> "Bool", c |-> <<>>, n |-> 1]

TsInputs ==
    {TsString(c) : c \in TsStrings}
        \cup {TsInt64(n) : n \in {0, 5, 1000, 1500, 0 - 5, 0 - 1500}}
        \cup {TsBool}

TsFormats == {"unix", "unix_ms", "unix_us", "unix_ns", "2006-01-02"}

TsLocations == {"", "America/Los_Angeles"}

\* strings.SplitN(s, sep, 2)
SplitN2(s, sep) ==
    IF \E x \in 1..Len(s) : s[x] = sep
    THEN LET at == CHOOSE x \in 1..Len(s) :
                      s[x] = sep /\ \A y \in 1..(x - 1) : s[y] # sep
         IN <<SubSeq(s, 1, at - 1), SubSeq(s, at + 1, Len(s))>>
    ELSE <<s>>

DigitChars == {"0", "1", "2", "3", "4", "5", "6", "7", "8", "9"}

DigitVal(ch) ==
    CASE ch = "0" -> 0 [] ch = "1" -> 1 [] ch = "2" -> 2 [] ch = "3" -> 3
      [] ch = "4" -> 4 [] ch = "5" -> 5 [] ch = "6" -> 6 [] ch = "7" -> 7
      [] ch = "8" -> 8 [] OTHER -> 9

\* the value of a sequence of digits, most significant first
RECURSIVE DigitsValue(_)
DigitsValue(ds) ==
    IF ds = <<>> THEN 0
    ELSE 10 * DigitsValue(SubSeq(ds, 1, Len(ds) - 1)) + DigitVal(ds[Len(ds)])

\* strconv.ParseInt(s, 10, 64): an optional sign and at least one digit
ParseInt(s) ==
    LET signed == s # <<>> /\ s[1] \in {"+", "-"}
        ds == IF signed THEN Tail(s) ELSE s
    IN IF ds = <<>> \/ \E x \in 1..Len(ds) : ds[x] \notin DigitChars
       THEN [err |-> TRUE, v |-> 0]
       ELSE [err |-> FALSE,
             v |-> IF signed /\ s[1] = "-" THEN 0 - DigitsValue(ds)
                   ELSE DigitsValue(ds)]

\* the length of the buffer "000000000"
NanoDigits == 9

\* the buffer copied from the left, which reads the digits as the least
\* significant ones ("5" -> 000000005)
NanoBuffer_RightAligned(second) ==
    [x \in 1..NanoDigits |->
        IF x > NanoDigits - Len(second) /\ Len(second) <= NanoDigits
        THEN second[x - (NanoDigits - Len(second))]
        ELSE "0"]

\* lines 409-410: buf := []byte("000000000"); copy(buf, second)
NanoBuffer(second) ==
    [x \in 1..NanoDigits |-> IF x <= Len(second) THEN second[x] ELSE "0"]

\* parseUnixTimeComponents(first, second)
parseUnixTimeComponents(first, second) ==
    LET integer == ParseInt(first)
        fractional == ParseInt(NanoBuffer(second))
    IN IF integer.err \/ fractional.err
       THEN [err |-> TRUE, integer |-> 0, fractional |-> 0]
       ELSE [err |-> FALSE, integer |-> integer.v, fractional |-> fractional.v]

\* parseComponents(timestamp), for the dynamic types the model draws
parseComponents(ts) ==
    CASE ts.k = "String" ->
            IF Len(SplitN2(ts.c, ".")) = 2
            THEN parseUnixTimeComponents(SplitN2(ts.c, ".")[1],
                                         SplitN2(ts.c, ".")[2])
            ELSE IF Len(SplitN2(ts.c, ",")) = 2
            THEN parseUnixTimeComponents(SplitN2(ts.c, ",")[1],
                                         SplitN2(ts.c, ",")[2])
            ELSE IF ParseInt(ts.c).err
            THEN [err |-> TRUE, integer |-> 0, fractional |-> 0]
            ELSE [err |-> FALSE, integer |-> ParseInt(ts.c).v, fractional |-> 0]
      [] ts.k = "Int64" ->
            [err |-> FALSE, integer |-> ts.n, fractional |-> 0]
      [] OTHER ->
            [err |-> TRUE, integer |-> 0, fractional |-> 0]

\* time.Unix(sec, nsec): nsec is brought into 0..999999999
TimeUnix(sec, nsec) ==
    [sec |-> sec + (nsec \div 1000000000), nsec |-> nsec % 1000000000,
     loc |-> "Local"]

\* time.Unix(0, integer * (1000000000 / perSec)), computed by whole seconds
\* so that the product is not formed
TimeUnixUnits(integer, perSec) ==
    [sec |-> integer \div perSec,
     nsec |-> (integer % perSec) * (1000000000 \div perSec),
     loc |-> "Local"]

\* t.UTC()
UTC(t) == [t EXCEPT !.loc = "UTC"]

TimeResult(err, t, by) ==
    [err |-> err, sec |-> t.sec, nsec |-> t.nsec, loc |-> t.loc, by |-> by]

\* parseUnix(format, timestamp)
parseUnix(format, ts) ==
    LET c == parseComponents(ts)
    IN IF c.err THEN TimeResult(TRUE, TimeUnix(0, 0), "parseUnix")
       ELSE CASE format = "unix" ->
                    TimeResult(FALSE, UTC(TimeUnix(c.integer, c.fractional)),
                               "parseUnix")
              [] format = "unix_ms" ->
                    TimeResult(FALSE, UTC(TimeUnixUnits(c.integer, 1000)),
                               "parseUnix")
              [] format = "unix_us" ->
                    TimeResult(FALSE, UTC(TimeUnixUnits(c.integer, 1000000)),
                               "parseUnix")
              [] format = "unix_ns" ->
                    TimeResult(FALSE, UTC(TimeUnixUnits(c.integer, 1000000000)),
                               "parseUnix")
              [] OTHER ->
                    TimeResult(TRUE, TimeUnix(0, 0), "parseUnix")

\* ParseTimestamp(format, timestamp, location); a layout format goes to
\* parseTime with the location defaulted, whose parsing is not modelled
ParseTimestamp(format, ts, location) ==
    IF format \in {"unix", "unix_ms", "unix_us", "unix_ns"}
    THEN parseUnix(format, ts)
    ELSE [err |-> ts.k # "String", sec |-> 0, nsec |-> 0,
          loc |-> IF location = "" THEN "UTC" ELSE location,
          by |-> "parseTime"]

InitTime ==
    /\ VersionIdle /\ GatherIdle /\ RowIdle
    /\ AdditionalTags = <<>> /\ tagValue = <<>> /\ measName = ""
    /\ acc = <<>> /\ dbgLog = <<>>
    /\ pc = "ts"
    /\ tsIn \in TsInputs
    /\ tsFormat = "" /\ tsLoc = "" /\ tsOut = NoTime

\* one call of ParseTimestamp on tsIn
ParseTimestampCall ==
    /\ pc = "ts"
    /\ \E f \in TsFormats, l \in TsLocations :
          /\ tsFormat' = f
          /\ tsLoc' = l
          /\ tsOut' = ParseTimestamp(f, tsIn, l)
    /\ pc' = "tsdone"
    /\ UNCHANGED <<Query, AdditionalTags, qi, dbVersion, detectOK, measName,
                   tagValue, columns, cursor, deferred, acc, errLog, dbgLog,
                   executed, ret, tsIn>>
    /\ UNCHANGED versionVars /\ UNCHANGED rowVars

NextTime == ParseTimestampCall

SpecTime == InitTime /\ [][NextTime]_vars

\* where a string timestamp is cut: at its first ".", else at its first ","
\* (0: nowhere)
TsCut(c) ==
    LET first(ch) == CHOOSE x \in 1..Len(c) :
                        c[x] = ch /\ \A y \in 1..(x - 1) : c[y] # ch
    IN IF "." \in Range(c) THEN first(".")
       ELSE IF "," \in Range(c) THEN first(",")
       ELSE 0

TsLeft(c) == IF TsCut(c) = 0 THEN c ELSE SubSeq(c, 1, TsCut(c) - 1)

TsRight(c) == IF TsCut(c) = 0 THEN <<>> ELSE SubSeq(c, TsCut(c) + 1, Len(c))

RECURSIVE Pow10(_)
Pow10(n) == IF n = 0 THEN 1 ELSE 10 * Pow10(n - 1)

\* the digits ds weighted from 10^top downwards (digits below 10^0 dropped)
RECURSIVE Weighted(_, _)
Weighted(ds, top) ==
    IF ds = <<>> \/ top < 0 THEN 0
    ELSE DigitVal(Head(ds)) * Pow10(top) + Weighted(Tail(ds), top - 1)

AllDigits(ds) == \A x \in 1..Len(ds) : ds[x] \in DigitChars

\* a signed decimal integer: an optional sign and at least one digit
IsSignedInt(l) ==
    /\ l # <<>>
    /\ IF l[1] \in {"+", "-"} THEN Len(l) > 1 /\ AllDigits(Tail(l))
       ELSE AllDigits(l)

SignedValue(l) ==
    IF l[1] = "-" THEN 0 - Weighted(Tail(l), Len(l) - 2)
    ELSE IF l[1] = "+" THEN Weighted(Tail(l), Len(l) - 2)
    ELSE Weighted(l, Len(l) - 1)

\* the inputs C12 speaks of: an integer, or a string whose left part is a
\* signed integer and whose right part holds digits only
TsWellFormed ==
    \/ tsIn.k = "Int64"
    \/ tsIn.k = "String" /\ IsSignedInt(TsLeft(tsIn.c)) /\ AllDigits(TsRight(tsIn.c))

TsIntegerPart ==
    IF tsIn.k = "Int64" THEN tsIn.n ELSE SignedValue(TsLeft(tsIn.c))

\* the right part as the leading digits of a 9-digit nanosecond field
TsFractionalNanos ==
    IF tsIn.k = "Int64" THEN 0 ELSE Weighted(TsRight(tsIn.c), 8)

C13_TagsOfDescriptor ==
    pc = "rows" =>
        AdditionalTags =
            IF Query[qi].Tagvalue = <<>> THEN <<>>
            ELSE StringsSplit(Query[qi].Tagvalue)

\* C13 witness: accRow has run for a row of a descriptor that follows one
\* with another, non-empty tag list
C13_Witness ==
    /\ pc = "rows" /\ cursor[qi].next > 1
    /\ \E d \in 1..(qi - 1) :
          /\ d \in DOMAIN cursor
          /\ Query[d].Tagvalue # <<>>
          /\ Query[d].Tagvalue # Query[qi].Tagvalue

(***************************************************************************)
(* C14 (as stated): a cycle always terminates having visited every         *)
(* descriptor: with the pool of MaxOpen = 1 connection a running Gather    *)
(* call can always take its next step, so the next descriptor's query is   *)
(* never left waiting for a connection an earlier descriptor's open result *)
(* set holds.  Refuted: after a row error the result set stays open and    *)
(* the next p.DB.Query waits for ever.                                     *)
(***************************************************************************)
C14_Original ==
    pc # "idle" => ENABLED GatherStep

====
